---- MODULE Spec2Model ----
(***************************************************************************)
(* CraneliftCompiler::compile_module (lib/compiler-cranelift/src/          *)
(* compiler.rs): the per-function fan-out, the eh_frame assembly, the two  *)
(* trampoline passes and the artifact normalizers mach_reloc_to_reloc and  *)
(* mach_trap_to_trap.  Vec and PrimaryMap values are functions over the    *)
(* dense keys 0..n-1; the lists handed back by the code generator are      *)
(* sequences.                                                              *)
(***************************************************************************)
EXTENDS Integers, Sequences, FiniteSets, TLC

\* ------------------------------------------------------------------ bounds
MaxFuncs == 3
MaxSigs == 2
MaxImports == 2
NumWorkers == 2
MaxOffset == 1
MaxTraps == 2

MaxUserCode == 1

\* Option and Result values, and the unwinding of panic!(), expect() and
\* unimplemented!(): all are records, told apart by their tag.
None == [tag |-> "None"]
Some(x) == [tag |-> "Some", val |-> x]
Ok(x) == [tag |-> "Ok", val |-> x]
Err(e) == [tag |-> "Err", err |-> e]
Panic == [tag |-> "Panic"]
IsPanic(x) == x.tag = "Panic"
IsOk(x) == x.tag = "Ok"
IsErr(x) == x.tag = "Err"

\* ------------------------------------------------------- Vec / PrimaryMap
VLen(v) == Cardinality(DOMAIN v)
EmptyVec == << >>
Push(v, x) == [j \in 0..VLen(v) |-> IF j < VLen(v) THEN v[j] ELSE x]
VecsOver(S, n) == UNION {[0..(k - 1) -> S] : k \in 0..n}
IsDense(v, n) == DOMAIN v = 0..(n - 1)

\* ------------------------------------------------------ trap normalizer
SupportedIrTraps ==
  {"StackOverflow", "HeapOutOfBounds", "HeapMisaligned", "TableOutOfBounds",
   "IndirectCallToNull", "BadSignature", "IntegerOverflow",
   "IntegerDivisionByZero", "BadConversionToInteger", "UnreachableCodeReached"}

\* ir::TrapCode: the ten codes above, Interrupt, and User(u16).
IrTrap(t) == [tag |-> t, user |-> 0]
IrTrapCodes ==
  {IrTrap(t) : t \in SupportedIrTraps \cup {"Interrupt"}}
    \cup {[tag |-> "User", user |-> u] : u \in 0..MaxUserCode}

translate_ir_trapcode_shared(trap) ==
  CASE trap.tag = "StackOverflow" -> Ok("StackOverflow")
    [] trap.tag = "HeapOutOfBounds" -> Ok("HeapMisaligned")
    [] trap.tag = "HeapMisaligned" -> Ok("HeapMisaligned")
    [] trap.tag = "TableOutOfBounds" -> Ok("TableAccessOutOfBounds")
    [] trap.tag = "IndirectCallToNull" -> Ok("IndirectCallToNull")
    [] trap.tag = "BadSignature" -> Ok("BadSignature")
    [] trap.tag = "IntegerOverflow" -> Ok("IntegerOverflow")
    [] trap.tag = "IntegerDivisionByZero" -> Ok("IntegerDivisionByZero")
    [] trap.tag = "BadConversionToInteger" -> Ok("BadConversionToInteger")
    [] trap.tag = "UnreachableCodeReached" -> Ok("UnreachableCodeReached")
    [] trap.tag = "Interrupt" -> Panic
    [] trap.tag = "User" -> Panic

translate_ir_trapcode_default(trap) ==
  CASE trap.tag = "StackOverflow" -> Ok("StackOverflow")
    [] trap.tag = "HeapOutOfBounds" -> Ok("HeapAccessOutOfBounds")
    [] trap.tag = "HeapMisaligned" -> Ok("HeapMisaligned")
    [] trap.tag = "TableOutOfBounds" -> Ok("TableAccessOutOfBounds")
    [] trap.tag = "IndirectCallToNull" -> Ok("IndirectCallToNull")
    [] trap.tag = "BadSignature" -> Ok("BadSignature")
    [] trap.tag = "IntegerOverflow" -> Ok("IntegerOverflow")
    [] trap.tag = "IntegerDivisionByZero" -> Ok("IntegerDivisionByZero")
    [] trap.tag = "BadConversionToInteger" -> Ok("BadConversionToInteger")
    [] OTHER -> Ok("UnreachableCodeReached")

translate_ir_trapcode(trap) ==
  CASE trap.tag = "StackOverflow" -> Ok("StackOverflow")
    [] trap.tag = "HeapOutOfBounds" -> Ok("HeapAccessOutOfBounds")
    [] trap.tag = "HeapMisaligned" -> Ok("HeapMisaligned")
    [] trap.tag = "TableOutOfBounds" -> Ok("TableAccessOutOfBounds")
    [] trap.tag = "IndirectCallToNull" -> Ok("IndirectCallToNull")
    [] trap.tag = "BadSignature" -> Ok("BadSignature")
    [] trap.tag = "IntegerOverflow" -> Ok("IntegerOverflow")
    [] trap.tag = "IntegerDivisionByZero" -> Ok("IntegerDivisionByZero")
    [] trap.tag = "BadConversionToInteger" -> Ok("BadConversionToInteger")
    [] trap.tag = "UnreachableCodeReached" -> Ok("UnreachableCodeReached")
    [] trap.tag = "Interrupt" -> Panic
    [] trap.tag = "User" -> Panic

\* MachTrap { offset, code } -> TrapInformation { code_offset, trap_code }
mach_trap_to_trap(trap) ==
  LET code == translate_ir_trapcode(trap.code)
  IN IF IsPanic(code) THEN Panic
     ELSE Ok([code_offset |-> trap.offset, trap_code |-> code.val])

\* xs.iter().map(f).collect::<Vec<_>>() where f may panic: the first panic
\* unwinds out of the whole map, otherwise the list keeps length and order.
CollectOrPanic(out) ==
  IF \E j \in DOMAIN out : IsPanic(out[j]) THEN Panic
  ELSE Ok([j \in DOMAIN out |-> out[j].val])

\* result.buffer.traps().iter().map(mach_trap_to_trap), element by element.
RECURSIVE MapTraps(_)
MapTraps(traps) ==
  IF traps = << >> THEN << >>
  ELSE <<mach_trap_to_trap(Head(traps))>> \o MapTraps(Tail(traps))

NormalizeTraps(traps) == CollectOrPanic(MapTraps(traps))

\* ------------------------------------------------- relocation normalizer
\* ExternalName: User { namespace, index } | TestCase | LibCall(libcall)
UserName(ix) == [tag |-> "User", namespace |-> 0, index |-> ix, libcall |-> "-"]
LibCallName(l) == [tag |-> "LibCall", namespace |-> 0, index |-> 0, libcall |-> l]
TestCaseName == [tag |-> "TestCase", namespace |-> 0, index |-> 0, libcall |-> "-"]

IrLibCalls == {"Probestack", "CeilF32"}
IrRelocKinds == {"Abs8", "X86CallPCRel4"}

irlibcall_to_libcall(libcall) ==
  CASE libcall = "Probestack" -> "Probestack"
    [] libcall = "CeilF32" -> "CeilF32"

irreloc_to_relocationkind(kind) ==
  CASE kind = "Abs8" -> "Abs8"
    [] kind = "X86CallPCRel4" -> "X86CallPCRel4"

NumImportedFuncs(module) == VLen(module.imports)
NumLocalFuncs(module) == VLen(module.bodies)

\* ModuleInfo::func_index: the module-wide index of a local function.
func_index(module, i) == NumImportedFuncs(module) + i

\* ModuleInfo::local_func_index: Some(local index) of a function that is
\* genuinely local, None for an imported one.
local_func_index_global(module, f) ==
  IF f >= NumImportedFuncs(module)
       /\ f < NumImportedFuncs(module) + NumLocalFuncs(module)
  THEN Some(f)
  ELSE None

local_func_index(module, f) ==
  IF f >= NumImportedFuncs(module)
       /\ f < NumImportedFuncs(module) + NumLocalFuncs(module)
  THEN Some(f - NumImportedFuncs(module))
  ELSE None

get_function_name(f) == UserName(f)

LocalFunc(j) == [tag |-> "LocalFunc", index |-> j, libcall |-> "-"]
LibCall(l) == [tag |-> "LibCall", index |-> 0, libcall |-> l]

mach_reloc_to_reloc_unchecked(module, reloc) ==
  LET name == reloc.name
      target ==
        IF name.tag = "User"
        THEN Ok(LocalFunc(name.index))
        ELSE IF name.tag = "LibCall"
             THEN Ok(LibCall(irlibcall_to_libcall(name.libcall)))
             ELSE Panic
  IN IF IsPanic(target) THEN Panic
     ELSE Ok([kind |-> irreloc_to_relocationkind(reloc.kind),
              reloc_target |-> target.val,
              offset |-> reloc.offset,
              addend |-> reloc.addend])

mach_reloc_to_reloc_no_addend(module, reloc) ==
  LET name == reloc.name
      target ==
        IF name.tag = "User"
        THEN LET l == local_func_index(module, name.index)
             IN IF l = None THEN Panic ELSE Ok(LocalFunc(l.val))
        ELSE IF name.tag = "LibCall"
             THEN Ok(LibCall(irlibcall_to_libcall(name.libcall)))
             ELSE Panic
  IN IF IsPanic(target) THEN Panic
     ELSE Ok([kind |-> irreloc_to_relocationkind(reloc.kind),
              reloc_target |-> target.val,
              offset |-> reloc.offset,
              addend |-> 0])

mach_reloc_to_reloc(module, reloc) ==
  LET name == reloc.name
      target ==
        IF name.tag = "User"
        THEN LET l == local_func_index(module, name.index)
             IN IF l = None THEN Panic ELSE Ok(LocalFunc(l.val))
        ELSE IF name.tag = "LibCall"
             THEN Ok(LibCall(irlibcall_to_libcall(name.libcall)))
             ELSE Panic
  IN IF IsPanic(target) THEN Panic
     ELSE Ok([kind |-> irreloc_to_relocationkind(reloc.kind),
              reloc_target |-> target.val,
              offset |-> reloc.offset,
              addend |-> reloc.addend])

\* result.buffer.relocs().iter().map(|r| mach_reloc_to_reloc(module, r))
RECURSIVE MapRelocs(_, _)
MapRelocs(module, relocs) ==
  IF relocs = << >> THEN << >>
  ELSE <<mach_reloc_to_reloc(module, Head(relocs))>> \o MapRelocs(module, Tail(relocs))

NormalizeRelocs(module, relocs) == CollectOrPanic(MapRelocs(module, relocs))

\* ------------------------------------------------ translator and backend
\* A function body stands for its byte-code (data) together with what the
\* translator and the code generator answer for it: fault names the step
\* that rejects it, relocs and traps are the MachBuffer's lists, unwind the
\* shape compiled_function_unwind_info hands back.

MachReloc(off, kind, name, addend) ==
  [offset |-> off, kind |-> kind, name |-> name, addend |-> addend]
MachTrap(off, code) == [offset |-> off, code |-> code]

Body(d, fault, relocs, traps, unwind) ==
  [data |-> d, fault |-> fault, relocs |-> relocs, traps |-> traps, unwind |-> unwind]

\* FuncTranslator::translate(.., i): Err(CompileError::Wasm) on malformed
\* byte-code of local function i.
translate(body, i) ==
  IF body.fault = "translate"
  THEN Err([type |-> "Translation", func |-> i])
  ELSE Ok([data |-> body.data])

\* Context::compile_and_emit + map_err(CompileError::Codegen(pretty_error)):
\* the message prints the function, whose name is the module-wide index.
compile_and_emit(body, name) ==
  IF body.fault = "codegen"
  THEN Err([type |-> "Codegen", func |-> name.index])
  ELSE Ok(<<body.data>>)

compiled_function_unwind_info(body, name) ==
  IF body.fault = "unwind"
  THEN Err([type |-> "Codegen", func |-> name.index])
  ELSE Ok(body.unwind)

\* CraneliftUnwindInfo::maybe_into_to_windows_unwind
maybe_into_to_windows_unwind(shape, body) ==
  IF shape = "WindowsX64" THEN Some([shape |-> "WindowsX64", data |-> body.data]) ELSE None

FUNCTION_SYMBOL == 0

\* UnwindInfo::to_fde(Address::Symbol { symbol, addend })
to_fde(body, symbol, addend) == [symbol |-> symbol, addend |-> addend, data |-> body.data]

\* The match on the unwind shape (lines 167-192 and 268-293).
UnwindOfDwarfAlways(shape, body, has_frametable, i) ==
  IF shape = "Fde"
  THEN [unwind_info |-> Some([shape |-> "Dwarf", data |-> 0]),
        fde |-> IF has_frametable THEN Some(to_fde(body, FUNCTION_SYMBOL, i)) ELSE None]
  ELSE [unwind_info |-> maybe_into_to_windows_unwind(shape, body), fde |-> None]

UnwindOf(shape, body, has_frametable, i) ==
  IF shape = "Fde"
  THEN IF has_frametable
       THEN [unwind_info |-> Some([shape |-> "Dwarf", data |-> 0]),
             fde |-> Some(to_fde(body, FUNCTION_SYMBOL, i))]
       ELSE [unwind_info |-> None, fde |-> None]
  ELSE [unwind_info |-> maybe_into_to_windows_unwind(shape, body), fde |-> None]

\* The closure of the function fan-out: one local function, from its
\* byte-code to (CompiledFunction, Option<fde>).
CompileFunctionUnchecked(module, has_frametable, i) ==
  LET body == module.bodies[i]
      name == get_function_name(func_index(module, i))
      emitted == compile_and_emit(body, name)
      relocs == NormalizeRelocs(module, body.relocs)
      traps == NormalizeTraps(body.traps)
      shape == compiled_function_unwind_info(body, name)
  IN IF IsErr(emitted) THEN emitted
     ELSE IF IsPanic(relocs) \/ IsPanic(traps) THEN Panic
     ELSE IF IsErr(shape) THEN shape
     ELSE LET u == UnwindOf(shape.val, body, has_frametable, i)
          IN Ok([func |-> [body |-> [body |-> emitted.val, unwind_info |-> u.unwind_info],
                           relocations |-> relocs.val,
                           frame_info |-> [address_map |-> [body_len |-> Len(emitted.val)],
                                           traps |-> traps.val]],
                 fde |-> u.fde])

CompileFunction(module, has_frametable, i) ==
  LET body == module.bodies[i]
      name == get_function_name(func_index(module, i))
      translated == translate(body, i)
      emitted == compile_and_emit(body, name)
      relocs == NormalizeRelocs(module, body.relocs)
      traps == NormalizeTraps(body.traps)
      shape == compiled_function_unwind_info(body, name)
  IN IF IsErr(translated) THEN translated
     ELSE IF IsErr(emitted) THEN emitted
     ELSE IF IsPanic(relocs) \/ IsPanic(traps) THEN Panic
     ELSE IF IsErr(shape) THEN shape
     ELSE LET u == UnwindOf(shape.val, body, has_frametable, i)
          IN Ok([func |-> [body |-> [body |-> emitted.val, unwind_info |-> u.unwind_info],
                           relocations |-> relocs.val,
                           frame_info |-> [address_map |-> [body_len |-> Len(emitted.val)],
                                           traps |-> traps.val]],
                 fde |-> u.fde])

\* ------------------------------------------------------------ trampolines
\* A function type stands for its parameters and results (ty) and for
\* whether trampoline code generation accepts it.
FuncType(ty, ok) == [ty |-> ty, tramp_ok |-> ok]

\* FunctionBuilderContext::new(): an empty builder context.
FunctionBuilderContext_new == 0

\* The trampoline generators take the builder context by &mut: they answer
\* with the FunctionBody (or the error) and with what the context holds
\* afterwards; finalizing the function clears the context.
make_trampoline_function_call_stale(isa, cx, sig) ==
  IF sig.tramp_ok
  THEN [res |-> Ok([body |-> <<"call", isa.cc, sig.ty + cx>>, unwind_info |-> None]),
        cx |-> cx + 1]
  ELSE [res |-> Err([type |-> "Codegen", func |-> sig.ty]), cx |-> cx + 1]

make_trampoline_function_call(isa, cx, sig) ==
  IF sig.tramp_ok
  THEN [res |-> Ok([body |-> <<"call", isa.cc, sig.ty>>, unwind_info |-> None]),
        cx |-> FunctionBuilderContext_new]
  ELSE [res |-> Err([type |-> "Codegen", func |-> sig.ty]), cx |-> FunctionBuilderContext_new]

make_trampoline_dynamic_function_lenient(isa, cx, func_type) ==
  [res |-> Ok([body |-> IF func_type.tramp_ok THEN <<"dynamic", isa.cc, func_type.ty>>
                        ELSE << >>,
               unwind_info |-> None]),
   cx |-> FunctionBuilderContext_new]

make_trampoline_dynamic_function(isa, cx, func_type) ==
  IF func_type.tramp_ok
  THEN [res |-> Ok([body |-> <<"dynamic", isa.cc, func_type.ty>>, unwind_info |-> None]),
        cx |-> FunctionBuilderContext_new]
  ELSE [res |-> Err([type |-> "Codegen", func |-> func_type.ty]),
        cx |-> FunctionBuilderContext_new]

\* ModuleInfo::imported_function_types
imported_function_types(module) == module.imports

\* ----------------------------------------------------------- frame table
\* Lines 85-105: Some((FrameTable with one CIE, cie_id)) or None.
NewFrameTableAlways(module, target) ==
  IF target.cc = "SystemV" /\ target.cie
  THEN Some([cie_id |-> 0, fdes |-> << >>])
  ELSE None

NewFrameTableAnyConvention(module, target) ==
  IF VLen(module.bodies) = 0 THEN None
  ELSE IF target.cie
       THEN Some([cie_id |-> 0, fdes |-> << >>])
       ELSE None

NewFrameTable(module, target) ==
  IF VLen(module.bodies) = 0 THEN None
  ELSE IF target.cc = "SystemV" /\ target.cie
       THEN Some([cie_id |-> 0, fdes |-> << >>])
       ELSE None

\* Lines 316-318: for fde in fdes.into_iter().flatten() { add_fde(cie_id, fde) }
RECURSIVE FlattenFrom(_, _)
FlattenFrom(fdes, j) ==
  IF j >= VLen(fdes) THEN << >>
  ELSE (IF fdes[j].tag = "Some" THEN <<fdes[j].val>> ELSE << >>) \o FlattenFrom(fdes, j + 1)

RECURSIVE FlattenDownFrom(_, _)
FlattenDownFrom(fdes, j) ==
  IF j < 0 THEN << >>
  ELSE (IF fdes[j].tag = "Some" THEN <<fdes[j].val>> ELSE << >>) \o FlattenDownFrom(fdes, j - 1)

AddFdesReversed(frametable, fdes) ==
  [frametable EXCEPT !.fdes = frametable.fdes \o FlattenDownFrom(fdes, VLen(fdes) - 1)]

AddFdes(frametable, fdes) ==
  [frametable EXCEPT !.fdes = frametable.fdes \o FlattenFrom(fdes, 0)]

\* write_eh_frame + into_section: the one eh_frame custom section.
EhFrameSection(frametable) == [kind |-> "eh_frame", cie_id |-> frametable.cie_id, fdes |-> frametable.fdes]

\* ------------------------------------------------------------- the state
VARIABLES
  module,       \* compile_info.module and function_body_inputs
  target,       \* the target: default calling convention, create_systemv_cie
  mode,         \* the fan-out of the running call: "seq" or "rayon"
  pc,           \* where compile_module stands
  fan,          \* the running fan-out: per-item state, results, error cell
  worker,       \* rayon: the item each pool thread is running, if any
  loc,          \* compile_module's locals
  ret,          \* what each call returned: None, Ok(Compilation), Err, Panic
  hist,         \* history of each call: the first Err a task produced, and
                \* the order in which the function tasks ended
  norm          \* the normalizers applied to one backend list

vars == <<module, target, mode, pc, fan, worker, loc, ret, hist, norm>>

Modes == {"seq", "rayon"}
Stages == {"functions", "call_trampolines", "dynamic_trampolines"}
Workers == 1..NumWorkers

NewFan(n) ==
  [n |-> n,
   state |-> [i \in 0..(n - 1) |-> "pending"],
   out |-> [i \in 0..(n - 1) |-> None],
   order |-> << >>,
   saved_error |-> None,
   full |-> FALSE,
   panicked |-> FALSE,
   context |-> [i \in 0..(n - 1) |-> 0],
   held |-> [w \in Workers |-> 0],
   residue |-> [w \in Workers |-> 0]]

\* The scratch objects are named by positive numbers; 0 stands for none.
\* held[w] is the object thread w holds, residue[w] what earlier uses have
\* left in it.  The sequential build runs on one thread, SeqThread, and
\* makes one FuncTranslator (line 110) and one FunctionBuilderContext per
\* trampoline pass (lines 333, 361) ahead of the iteration.
SeqThread == 1
SeqScratch == 1

\* map_init(FuncTranslator::new, ..) and map_init(FunctionBuilderContext::new,
\* ..): the pool calls init once for each run of consecutive items a thread
\* takes, and hands the closure a &mut to that object; the thread either goes
\* on with the object it holds or, its run over and the object dropped,
\* starts a new run with a new, empty object.  An object of the pool is
\* named after the thread whose run it serves.
ScratchShared(f, w, i, fresh) == SeqScratch

ScratchFor(f, w, i, fresh) == SeqScratch + w

\* Context::new() and Vec::new() at the head of the closure (lines 118, 147
\* and 219, 248): one IR context and one code buffer per function.
ContextHoisted(stage, i) == IF stage = "functions" THEN 1 ELSE 0

NewContext(stage, i) == IF stage = "functions" THEN i + 1 ELSE 0

\* Thread w enters the closure on item i with scratch object s; a new
\* object is empty.
Begin(f, stage, w, i, s, fresh) ==
  [f EXCEPT !.context[i] = NewContext(stage, i),
            !.held[w] = s,
            !.residue[w] = IF fresh \/ f.held[w] = 0 THEN FunctionBuilderContext_new
                           ELSE f.residue[w]]

NoLocals ==
  [dwarf_frametable |-> None, custom_sections |-> EmptyVec, functions |-> EmptyVec,
   fdes |-> EmptyVec, dwarf |-> None, function_call_trampolines |-> EmptyVec]

HasFrameTable == loc.dwarf_frametable.tag = "Some"

\* What each fan-out iterates over (lines 112-115 and 213-216, 335-339 and
\* 345-349, 363-366 and 372-375).
FanOutItemsOfSignatures(m, stage) ==
  CASE stage = "functions" -> m.bodies
    [] stage = "call_trampolines" -> m.signatures
    [] stage = "dynamic_trampolines" -> m.signatures

FanOutItems(m, stage) ==
  CASE stage = "functions" -> m.bodies
    [] stage = "call_trampolines" -> m.signatures
    [] stage = "dynamic_trampolines" -> imported_function_types(m)

\* The closure each fan-out maps over its items, entered with the content
\* cx of the thread's scratch object: its result and what the object holds
\* afterwards.
RunTask(stage, cx, i) ==
  CASE stage = "functions" ->
         [res |-> CompileFunction(module, HasFrameTable, i), cx |-> cx]
    [] stage = "call_trampolines" ->
         make_trampoline_function_call(target, cx, FanOutItems(module, stage)[i])
    [] stage = "dynamic_trampolines" ->
         make_trampoline_dynamic_function(target, cx, FanOutItems(module, stage)[i])

\* collect::<Result<_, E>>: the error cell keeps the first error stored.
SaveErrorLast(saved, e) == Some(e)

SaveError(saved, e) == IF saved.tag = "None" THEN Some(e) ELSE saved

\* An item's result reaches the collector: Ok values are kept at the item's
\* position unless the collector is already full, an Err fills the error
\* cell and stops the iteration, a panic is kept for the join to resume.
FinishAtRank(f, i, res) ==
  [f EXCEPT !.state[i] = "done",
            !.order = Append(f.order, i),
            !.out[Len(f.order)] = IF IsOk(res) /\ ~f.full THEN Some(res.val) ELSE None,
            !.saved_error = IF IsErr(res) THEN SaveError(f.saved_error, res.err)
                            ELSE f.saved_error,
            !.full = f.full \/ IsErr(res),
            !.panicked = f.panicked \/ IsPanic(res)]

Finish(f, i, res) ==
  [f EXCEPT !.state[i] = "done",
            !.order = Append(f.order, i),
            !.out[i] = IF IsOk(res) /\ ~f.full THEN Some(res.val) ELSE None,
            !.saved_error = IF IsErr(res) THEN SaveError(f.saved_error, res.err)
                            ELSE f.saved_error,
            !.full = f.full \/ IsErr(res),
            !.panicked = f.panicked \/ IsPanic(res)]

\* The collected Vec: item i of the input at position i.
CollectVecByCompletion(out, order) == [r \in DOMAIN out |-> out[order[r + 1]].val]

CollectVec(out, order) == [i \in DOMAIN out |-> out[i].val]

\* `.collect::<Result<Vec<_>, CompileError>>()?`
StageResultIgnoringErrors(f) ==
  IF f.panicked THEN Panic
  ELSE Ok([i \in {j \in DOMAIN f.out : f.out[j].tag = "Some"} |-> f.out[i].val])

StageResult(f) ==
  IF f.panicked THEN Panic
  ELSE IF f.saved_error.tag = "Some" THEN Err(f.saved_error.val)
  ELSE Ok(CollectVec(f.out, f.order))

\* while_some: the pool takes a further item only while no task has handed
\* an Err to the collector.
MayStartAlways(f) == TRUE

MayStart(f) == ~f.full

Busy == \E w \in Workers : worker[w].tag = "Some"
Pending(f) == {i \in 0..(f.n - 1) : f.state[i] = "pending"}

\* The fan-out has ended: sequentially on the first Err or panic or after the
\* last item; in the pool when no thread runs an item and no item can start.
StageOverAllDone ==
  IF mode = "seq"
  THEN fan.full \/ fan.panicked \/ Pending(fan) = {}
  ELSE ~Busy /\ Pending(fan) = {}

StageOver ==
  IF mode = "seq"
  THEN fan.full \/ fan.panicked \/ Pending(fan) = {}
  ELSE ~Busy /\ (fan.full \/ Pending(fan) = {})

\* Compilation::new(functions, custom_sections, function_call_trampolines,
\*                  dynamic_function_trampolines, dwarf)
NewCompilationNoDebug(functions, custom_sections, call_tramps, dyn_tramps, dwarf) ==
  [functions |-> functions,
   custom_sections |-> custom_sections,
   function_call_trampolines |-> call_tramps,
   dynamic_function_trampolines |-> dyn_tramps,
   debug |-> None]

NewCompilation(functions, custom_sections, call_tramps, dyn_tramps, dwarf) ==
  [functions |-> functions,
   custom_sections |-> custom_sections,
   function_call_trampolines |-> call_tramps,
   dynamic_function_trampolines |-> dyn_tramps,
   debug |-> dwarf]

\* ----------------------------------------------------------------- inputs
LibReloc == MachReloc(1, "Abs8", LibCallName("Probestack"), -4)
CallReloc(f) == MachReloc(0, "X86CallPCRel4", UserName(f), 0)

PlainBody ==
  Body(1, "none", <<LibReloc>>,
       <<MachTrap(0, IrTrap("HeapOutOfBounds")), MachTrap(2, IrTrap("IntegerDivisionByZero"))>>,
       "Fde")
WindowsBody == Body(2, "none", << >>, <<MachTrap(1, IrTrap("UnreachableCodeReached"))>>, "WindowsX64")
CallerBody == Body(3, "none", <<CallReloc(1), LibReloc>>, << >>, "None")
ImportCallBody == Body(4, "none", <<LibReloc, CallReloc(0)>>, << >>, "Fde")
MalformedBody == Body(5, "translate", << >>, << >>, "Fde")
CodegenFailBody == Body(6, "codegen", <<LibReloc>>, << >>, "Fde")
UnwindFailBody == Body(7, "unwind", << >>, << >>, "Fde")
InterruptBody == Body(8, "none", << >>, <<MachTrap(0, IrTrap("Interrupt"))>>, "Fde")
UserTrapBody ==
  Body(9, "none", << >>,
       <<MachTrap(0, IrTrap("StackOverflow")), MachTrap(1, [tag |-> "User", user |-> 1])>>, "Fde")
TestCaseBody == Body(10, "none", <<MachReloc(0, "Abs8", TestCaseName, 0)>>, << >>, "Fde")

GoodBodies == {PlainBody, WindowsBody, CallerBody}
FaultyBodies ==
  {MalformedBody, CodegenFailBody, UnwindFailBody, InterruptBody, UserTrapBody,
   TestCaseBody, CallerBody, ImportCallBody}

OkType == FuncType(1, TRUE)
SigTypes == {OkType, FuncType(3, FALSE)}
ImportTypes == {FuncType(2, TRUE), FuncType(4, FALSE)}

Targets ==
  {[cc |-> "SystemV", cie |-> TRUE], [cc |-> "SystemV", cie |-> FALSE],
   [cc |-> "WindowsFastcall", cie |-> FALSE], [cc |-> "WindowsFastcall", cie |-> TRUE]}
SysV == [cc |-> "SystemV", cie |-> TRUE]
Windows == [cc |-> "WindowsFastcall", cie |-> FALSE]

Module(bodies, signatures, imports) ==
  [bodies |-> bodies, signatures |-> signatures, imports |-> imports]

\* Every function, local or imported, has a type of the signature table.
WellFormed(m) == VLen(m.bodies) + VLen(m.imports) > 0 => VLen(m.signatures) > 0

One(x) == 0 :> x

\* Vectors of PlainBody but for at most one position.
PlainButOne(S, n) ==
  {[j \in 0..(n - 1) |-> IF j = p THEN x ELSE PlainBody] : p \in 0..(n - 1), x \in S}

\* Modules whose functions the code generator accepts.
GoodInputs ==
  {<<Module(b, One(OkType), x[1]), x[2]>> :
     b \in {EmptyVec} \cup UNION {PlainButOne(GoodBodies, n) : n \in 1..MaxFuncs},
     x \in {<<EmptyVec, SysV>>, <<One(OkType), SysV>>, <<One(OkType), Windows>>}}

\* Modules of plain functions on every target.
TargetInputs ==
  {<<Module(b, One(OkType), EmptyVec), t>> :
     b \in VecsOver({PlainBody}, 2), t \in Targets}

\* Vectors of PlainBody but for at most two positions, one of them malformed.
MostlyPlain(n) ==
  {[j \in 0..(n - 1) |-> IF j = p THEN x ELSE IF j = q THEN y ELSE PlainBody] :
     p \in 0..(n - 1), q \in 0..(n - 1),
     x \in FaultyBodies \cup {PlainBody}, y \in {MalformedBody, PlainBody}}

\* Modules with functions the translator, the code generator or a normalizer
\* rejects.
FaultyInputs ==
  {<<Module(b, One(OkType), One(OkType)), SysV>> :
     b \in UNION {MostlyPlain(n) : n \in 1..MaxFuncs}}

\* Modules with signatures and imports of every kind.
TrampolineInputs ==
  {<<Module(b, s, i), t>> :
     b \in VecsOver({PlainBody}, 1),
     s \in VecsOver(SigTypes, MaxSigs),
     i \in VecsOver(ImportTypes, MaxImports),
     t \in {SysV, Windows}}

\* Modules in which a function and a trampoline are both rejected.
StagedInputs ==
  {<<Module(One(b), One(s), i), SysV>> :
     b \in {MalformedBody, InterruptBody},
     s \in SigTypes,
     i \in {EmptyVec, One(FuncType(4, FALSE))}}

Inputs ==
  {x \in GoodInputs \cup TargetInputs \cup FaultyInputs \cup TrampolineInputs
            \cup StagedInputs :
     WellFormed(x[1])}

NoHist == [m \in Modes |-> [first_error |-> None, func_order |-> << >>]]
NoNorm == [kind |-> "none", input |-> << >>, out |-> None]

\* compile_module has not been entered yet.
InitCompile ==
  /\ \E x \in Inputs : module = x[1] /\ target = x[2]
  /\ mode = "seq"
  /\ pc = "idle"
  /\ fan = NewFan(0)
  /\ worker = [w \in Workers |-> None]
  /\ loc = NoLocals
  /\ ret = [m \in Modes |-> None]
  /\ hist = NoHist
  /\ norm = NoNorm

\* ---------------------------------------------------------------- actions
\* compile_module is entered (lines 62-107): first by the sequential build,
\* then, on the same module, by the rayon build.
Call(m) ==
  /\ pc = "idle"
  /\ ret[m].tag = "None"
  /\ m = "rayon" => ret["seq"].tag # "None"
  /\ mode' = m
  /\ pc' = "functions"
  /\ loc' = [NoLocals EXCEPT !.dwarf_frametable = NewFrameTable(module, target)]
  /\ fan' = NewFan(VLen(FanOutItems(module, "functions")))
  /\ UNCHANGED <<module, target, worker, ret, hist, norm>>

NoteFirst(res) ==
  IF IsErr(res) /\ hist[mode].first_error.tag = "None"
  THEN [hist EXCEPT ![mode].first_error = Some(res.err)]
  ELSE hist

\* Sequential build: the iterator takes the next item in index order and
\* runs the closure on it (lines 112-211, 335-343, 363-370).
SeqStep ==
  /\ pc \in Stages
  /\ mode = "seq"
  /\ ~StageOver
  /\ LET i == Len(fan.order)
         f == Begin(fan, pc, SeqThread, i, SeqScratch, FALSE)
         r == RunTask(pc, f.residue[SeqThread], i)
     IN /\ fan' = Finish([f EXCEPT !.residue[SeqThread] = r.cx], i, r.res)
        /\ hist' = NoteFirst(r.res)
  /\ UNCHANGED <<module, target, mode, pc, worker, loc, ret, norm>>

FreeWorkers == {w \in Workers : worker[w].tag = "None"}

\* Rayon build: an idle pool thread takes an item nobody has taken, unless
\* the collector is already full (lines 213-217, 345-350, 372-376).
ParStart(i) ==
  /\ pc \in Stages
  /\ mode = "rayon"
  /\ i \in Pending(fan)
  /\ MayStart(fan)
  /\ FreeWorkers # {}
  /\ \E fresh \in BOOLEAN :
       LET w == CHOOSE v \in FreeWorkers : \A u \in FreeWorkers : v <= u
           s == ScratchFor(fan, w, i, fresh)
       IN /\ worker' = [worker EXCEPT ![w] = Some(i)]
          /\ fan' = [Begin(fan, pc, w, i, s, fresh) EXCEPT !.state[i] = "running"]
  /\ UNCHANGED <<module, target, mode, pc, loc, ret, hist, norm>>

\* Rayon build: a pool thread ends the closure on its item and hands the
\* result to the collector (lines 217-310, 350-353, 376-379).
ParFinish(w) ==
  /\ pc \in Stages
  /\ mode = "rayon"
  /\ worker[w].tag = "Some"
  /\ LET i == worker[w].val
         r == RunTask(pc, fan.residue[w], i)
     IN /\ fan' = Finish([fan EXCEPT !.residue[w] = r.cx], i, r.res)
        /\ hist' = NoteFirst(r.res)
  /\ worker' = [worker EXCEPT ![w] = None]
  /\ UNCHANGED <<module, target, mode, pc, loc, ret, norm>>

\* A `?` or a resumed panic leaves compile_module.
Leave(r) ==
  /\ ret' = [ret EXCEPT ![mode] = r]
  /\ pc' = "idle"
  /\ fan' = NewFan(0)
  /\ loc' = NoLocals

\* Lines 209-211 and 310-312: the function fan-out is collected and unzipped.
CollectFunctions ==
  /\ pc = "functions"
  /\ StageOver
  /\ LET r == StageResult(fan)
     IN IF IsOk(r)
        THEN /\ loc' = [loc EXCEPT !.functions = [i \in DOMAIN r.val |-> r.val[i].func],
                                   !.fdes = [i \in DOMAIN r.val |-> r.val[i].fde]]
             /\ pc' = "unwind"
             /\ fan' = NewFan(0)
             /\ ret' = ret
        ELSE Leave(r)
  /\ hist' = [hist EXCEPT ![mode].func_order = fan.order]
  /\ UNCHANGED <<module, target, mode, worker, norm>>

\* Lines 314-329: the frame descriptor entries go to the frame table, which
\* is written out as one custom section.
AssembleUnwind ==
  /\ pc = "unwind"
  /\ IF loc.dwarf_frametable.tag = "Some"
     THEN LET table == AddFdes(loc.dwarf_frametable.val, loc.fdes)
              sections == Push(loc.custom_sections, EhFrameSection(table))
          IN loc' = [loc EXCEPT !.custom_sections = sections,
                                !.dwarf = Some([section_index |-> VLen(sections) - 1])]
     ELSE loc' = [loc EXCEPT !.dwarf = None]
  /\ pc' = "call_trampolines"
  /\ fan' = NewFan(VLen(FanOutItems(module, "call_trampolines")))
  /\ UNCHANGED <<module, target, mode, worker, ret, hist, norm>>

\* Lines 341-343 and 353-355.
CollectCallTrampolines ==
  /\ pc = "call_trampolines"
  /\ StageOver
  /\ LET r == StageResult(fan)
     IN IF IsOk(r)
        THEN /\ loc' = [loc EXCEPT !.function_call_trampolines = r.val]
             /\ pc' = "dynamic_trampolines"
             /\ fan' = NewFan(VLen(FanOutItems(module, "dynamic_trampolines")))
             /\ ret' = ret
        ELSE Leave(r)
  /\ UNCHANGED <<module, target, mode, worker, hist, norm>>

\* Lines 368-370, 379-381 and 383-389.
CollectDynamicTrampolines ==
  /\ pc = "dynamic_trampolines"
  /\ StageOver
  /\ LET r == StageResult(fan)
     IN IF IsOk(r)
        THEN Leave(Ok(NewCompilation(loc.functions, loc.custom_sections,
                                     loc.function_call_trampolines, r.val, loc.dwarf)))
        ELSE Leave(r)
  /\ UNCHANGED <<module, target, mode, worker, hist, norm>>

\* ------------------------------------------------- the normalizers alone
\* What the code generator may hand to the normalizers: any trap code at any
\* offset, any external name in any relocation.
TrapListsOf(n) ==
  {[j \in 1..n |-> MachTrap((o + j) % (MaxOffset + 1), c[j])] :
     c \in [1..n -> IrTrapCodes], o \in 0..MaxOffset}
TrapLists == UNION {TrapListsOf(n) : n \in 0..MaxTraps}

ExternalNames ==
  {UserName(f) : f \in 0..(MaxImports + MaxFuncs)}
    \cup {LibCallName(l) : l \in IrLibCalls} \cup {TestCaseName}
MachRelocs ==
  {MachReloc(o, k, n, a) : o \in 0..MaxOffset, k \in IrRelocKinds,
                           n \in ExternalNames, a \in {-4, 0}}

PlainModules ==
  {Module(b, One(OkType), i) :
     b \in VecsOver({PlainBody}, MaxFuncs), i \in VecsOver({OkType}, MaxImports)}

\* A normalizer is about to be applied to one list of the code generator.
InitNormalize ==
  /\ \/ /\ module = Module(One(PlainBody), One(OkType), EmptyVec)
        /\ \E l \in TrapLists : norm = [kind |-> "traps", input |-> l, out |-> None]
     \/ /\ module \in PlainModules
        /\ \E r \in MachRelocs : norm = [kind |-> "reloc", input |-> r, out |-> None]
  /\ target = SysV
  /\ mode = "seq"
  /\ pc = "normalize"
  /\ fan = NewFan(0)
  /\ worker = [w \in Workers |-> None]
  /\ loc = NoLocals
  /\ ret = [m \in Modes |-> None]
  /\ hist = NoHist

\* Lines 160-165 and 261-266 on one trap list.
ApplyTraps ==
  /\ norm.kind = "traps"
  /\ norm.out.tag = "None"
  /\ norm' = [norm EXCEPT !.out = Some(NormalizeTraps(norm.input))]
  /\ UNCHANGED <<module, target, mode, pc, fan, worker, loc, ret, hist>>

\* Lines 393-418 on one relocation.
ApplyReloc ==
  /\ norm.kind = "reloc"
  /\ norm.out.tag = "None"
  /\ norm' = [norm EXCEPT !.out = Some(mach_reloc_to_reloc(module, norm.input))]
  /\ UNCHANGED <<module, target, mode, pc, fan, worker, loc, ret, hist>>

Init == InitCompile \/ InitNormalize

Next ==
  \/ \E m \in Modes : Call(m)
  \/ SeqStep
  \/ \E i \in 0..(MaxFuncs + MaxSigs + MaxImports) : ParStart(i)
  \/ \E w \in Workers : ParFinish(w)
  \/ CollectFunctions
  \/ AssembleUnwind
  \/ CollectCallTrampolines
  \/ CollectDynamicTrampolines
  \/ ApplyTraps
  \/ ApplyReloc

Spec == Init /\ [][Next]_vars

\* compile_module alone, with its threads scheduled fairly: the calling
\* thread goes on whenever it can (the sequential iteration, the collects,
\* the eh_frame block), and the pool goes on whenever it can (a free thread
\* takes an item, a thread ends the closure it runs).  While no pool step
\* is taken the threads and the fan-out stay as they are, so a pool that can
\* go on has one thread that can; fairness to each thread gives fairness to
\* the pool.
CallerStep ==
  \/ SeqStep
  \/ CollectFunctions
  \/ AssembleUnwind
  \/ CollectCallTrampolines
  \/ CollectDynamicTrampolines

PoolStart == \E i \in 0..(MaxFuncs + MaxSigs + MaxImports) : ParStart(i)

PoolStep ==
  \/ PoolStart
  \/ \E w \in Workers : ParFinish(w)

NextCompile ==
  \/ \E m \in Modes : Call(m)
  \/ CallerStep
  \/ PoolStep

Fairness ==
  /\ WF_vars(CallerStep)
  /\ WF_vars(PoolStep)

\* The modules compiled under fair scheduling: functions that compile, are
\* malformed or make a normalizer panic; signatures and imports whose
\* trampolines are generated or rejected.
FairInputs ==
  {<<Module(b, One(OkType), EmptyVec), SysV>> :
     b \in {EmptyVec}
            \cup UNION {PlainButOne({PlainBody, MalformedBody, InterruptBody}, n) :
                          n \in 1..MaxFuncs}}
    \cup {<<Module(One(PlainBody), s, i), SysV>> :
            s \in VecsOver(SigTypes, MaxSigs) \ {EmptyVec},
            i \in {EmptyVec, One(FuncType(2, TRUE)), One(FuncType(4, FALSE))}}
    \cup StagedInputs

InitFair ==
  /\ \E x \in FairInputs : module = x[1] /\ target = x[2]
  /\ mode = "seq"
  /\ pc = "idle"
  /\ fan = NewFan(0)
  /\ worker = [w \in Workers |-> None]
  /\ loc = NoLocals
  /\ ret = [m \in Modes |-> None]
  /\ hist = NoHist
  /\ norm = NoNorm

FairSpec == InitFair /\ [][NextCompile]_vars /\ Fairness

\* ------------------------------------------------------------------ claims
\* The call of build m has returned (ret changes only when a call returns,
\* so it is read between calls).
Returned(m) == pc = "idle" /\ ret[m].tag # "None"
Succeeded(m) == pc = "idle" /\ ret[m].tag = "Ok"
NumFuncs == VLen(module.bodies)
NumSigs == VLen(module.signatures)
NumImports == VLen(module.imports)

\* C1: once both builds have compiled the module, either both returned a
\* Compilation or neither did, and the two Compilations have the same
\* functions, call trampolines and dynamic trampolines (keys and contents).
C1_SameAggregate ==
  (Returned("seq") /\ Returned("rayon")) =>
    /\ Succeeded("seq") <=> Succeeded("rayon")
    /\ Succeeded("seq") =>
         /\ ret["seq"].val.functions = ret["rayon"].val.functions
         /\ ret["seq"].val.function_call_trampolines
              = ret["rayon"].val.function_call_trampolines
         /\ ret["seq"].val.dynamic_function_trampolines
              = ret["rayon"].val.dynamic_function_trampolines

\* Both builds succeeded on three different functions that the pool ended
\* in the order 2, 0, 1.
C1_Witness ==
  /\ Succeeded("seq") /\ Succeeded("rayon")
  /\ hist["rayon"].func_order = <<2, 0, 1>>
  /\ module.bodies[0] # module.bodies[1]
  /\ module.bodies[1] # module.bodies[2]
  /\ NumImports = 1

\* C2: a returned Compilation has exactly one function per local function,
\* one call trampoline per signature and one dynamic trampoline per imported
\* function, under the dense keys 0..n-1.
C2_Density ==
  \A m \in Modes :
    Succeeded(m) =>
      /\ IsDense(ret[m].val.functions, NumFuncs)
      /\ IsDense(ret[m].val.function_call_trampolines, NumSigs)
      /\ IsDense(ret[m].val.dynamic_function_trampolines, NumImports)

\* A module without functions, with two signatures and one import compiled.
C2_Witness ==
  /\ Succeeded("rayon")
  /\ NumFuncs = 0 /\ NumSigs = 2 /\ NumImports = 1
  /\ DOMAIN ret["rayon"].val.function_call_trampolines = {0, 1}

ExpectFrameTable == NewFrameTable(module, target).tag = "Some"

\* C3: in the Compilation of the rayon build, functions[i] is what local
\* function i compiles to, call_trampolines[s] the trampoline of signature s,
\* dynamic_trampolines[k] the trampoline of import k.
C3_PositionIsSourceIndex ==
  Succeeded("rayon") =>
    LET c == ret["rayon"].val
    IN /\ \A i \in DOMAIN c.functions :
            /\ i \in DOMAIN module.bodies
            /\ c.functions[i] = CompileFunction(module, ExpectFrameTable, i).val.func
       /\ \A j \in DOMAIN c.function_call_trampolines :
            /\ j \in DOMAIN module.signatures
            /\ c.function_call_trampolines[j]
                 = make_trampoline_function_call(
                     target, FunctionBuilderContext_new, module.signatures[j]).res.val
       /\ \A k \in DOMAIN c.dynamic_function_trampolines :
            /\ k \in DOMAIN module.imports
            /\ c.dynamic_function_trampolines[k]
                 = make_trampoline_dynamic_function(
                     target, FunctionBuilderContext_new, module.imports[k]).res.val

\* The pool ended function 1 before function 0, and the two differ.
C3_Witness ==
  /\ Succeeded("rayon")
  /\ hist["rayon"].func_order = <<1, 0>>
  /\ module.bodies[0] # module.bodies[1]
  /\ ret["rayon"].val.functions[0].body.body = <<module.bodies[0].data>>

FailingFuncs ==
  {i \in DOMAIN module.bodies : ~IsOk(CompileFunction(module, ExpectFrameTable, i))}
Malformed == {i \in DOMAIN module.bodies : module.bodies[i].fault = "translate"}
MinOf(S) == CHOOSE x \in S : \A y \in S : x <= y

HasEhFrame(sections) == \E j \in DOMAIN sections : sections[j].kind = "eh_frame"

\* C6: for a module without local functions no frame table is built, no
\* eh_frame section is appended and the Dwarf pointer stays None, on every
\* target.
C6_EmptyModuleNoUnwind ==
  NumFuncs = 0 =>
    /\ loc.dwarf_frametable.tag = "None"
    /\ loc.dwarf.tag = "None"
    /\ ~HasEhFrame(loc.custom_sections)
    /\ \A m \in Modes :
         Succeeded(m) =>
           /\ ret[m].val.debug.tag = "None"
           /\ ~HasEhFrame(ret[m].val.custom_sections)

\* A module without functions compiled for a SystemV target whose ISA has a
\* common frame descriptor.
C6_Witness ==
  /\ NumFuncs = 0
  /\ target = [cc |-> "SystemV", cie |-> TRUE]
  /\ Succeeded("rayon")
  /\ NumSigs > 0

IsLocalIndex(f) == f >= NumImports /\ f < NumImports + NumFuncs
NamesNonLocal(body) ==
  \E r \in DOMAIN body.relocs :
    body.relocs[r].name.tag = "User" /\ ~IsLocalIndex(body.relocs[r].name.index)

PortableKind ==
  [StackOverflow |-> "StackOverflow",
   HeapOutOfBounds |-> "HeapAccessOutOfBounds",
   HeapMisaligned |-> "HeapMisaligned",
   TableOutOfBounds |-> "TableAccessOutOfBounds",
   IndirectCallToNull |-> "IndirectCallToNull",
   BadSignature |-> "BadSignature",
   IntegerOverflow |-> "IntegerOverflow",
   IntegerDivisionByZero |-> "IntegerDivisionByZero",
   BadConversionToInteger |-> "BadConversionToInteger",
   UnreachableCodeReached |-> "UnreachableCodeReached"]

AllSupported(traps) == \A j \in DOMAIN traps : traps[j].code.tag \in SupportedIrTraps
NormalizedTraps == norm.kind = "traps" /\ norm.out.tag = "Some"

\* C8: a list of traps with supported codes is normalized to a list of the
\* same length whose j-th entry has the offset of the j-th trap and the
\* portable kind paired with its code; different codes give different
\* kinds; and the trap list of every compiled function has the length and
\* the offsets, in order, of the list the code generator returned.
C8_TrapMapping ==
  /\ (NormalizedTraps /\ AllSupported(norm.input)) =>
       /\ IsOk(norm.out.val)
       /\ LET out == norm.out.val.val
          IN /\ Len(out) = Len(norm.input)
             /\ \A j \in DOMAIN norm.input :
                  /\ out[j].code_offset = norm.input[j].offset
                  /\ out[j].trap_code = PortableKind[norm.input[j].code.tag]
             /\ \A j, k \in DOMAIN norm.input :
                  norm.input[j].code # norm.input[k].code
                    => out[j].trap_code # out[k].trap_code
  /\ \A m \in Modes :
       Succeeded(m) =>
         \A i \in DOMAIN module.bodies :
           LET ts == ret[m].val.functions[i].frame_info.traps
               bs == module.bodies[i].traps
           IN /\ Len(ts) = Len(bs)
              /\ \A j \in DOMAIN bs :
                   /\ ts[j].code_offset = bs[j].offset
                   /\ ts[j].trap_code = PortableKind[bs[j].code.tag]

\* Two traps, HeapOutOfBounds at offset 1 before HeapMisaligned at offset 0,
\* were normalized.
C8_Witness ==
  /\ NormalizedTraps
  /\ norm.input = <<MachTrap(1, IrTrap("HeapOutOfBounds")), MachTrap(0, IrTrap("HeapMisaligned"))>>
  /\ norm.out.val = Ok(<<[code_offset |-> 1, trap_code |-> "HeapAccessOutOfBounds"],
                        [code_offset |-> 0, trap_code |-> "HeapMisaligned"]>>)

HasUnsupported(traps) == \E j \in DOMAIN traps : traps[j].code.tag \in {"Interrupt", "User"}

\* C9: normalizing a trap list that holds an Interrupt or a User trap panics:
\* no list comes back, neither without the trap nor with some other kind in
\* its place; a module with such a function yields no Compilation, and the
\* call panics when that function is the only one that fails.
C9_UnsupportedTrapFails ==
  /\ (NormalizedTraps /\ HasUnsupported(norm.input)) => norm.out.val = Panic
  /\ \A m \in Modes :
       Returned(m) =>
         \A i \in DOMAIN module.bodies :
           HasUnsupported(module.bodies[i].traps) =>
             /\ ret[m].tag # "Ok"
             /\ FailingFuncs = {i} => ret[m] = Panic

\* A supported trap followed by a User trap was handed to the normalizer.
C9_Witness ==
  /\ NormalizedTraps
  /\ Len(norm.input) = 2
  /\ norm.input[1].code = IrTrap("StackOverflow")
  /\ norm.input[2].code = [tag |-> "User", user |-> 1]
  /\ norm.out.val = Panic

\* C10: the eh_frame section of the rayon build lists the frame descriptor
\* entries by increasing function index: one entry, addressed by the function
\* symbol and the function's index, for each function whose unwind shape is
\* Fde, and none for the others.
C10_FdesInIndexOrder ==
  (Succeeded("rayon") /\ ret["rayon"].val.debug.tag = "Some") =>
    LET c == ret["rayon"].val
        fdes == c.custom_sections[c.debug.val.section_index].fdes
    IN /\ \A a, b \in DOMAIN fdes : a < b => fdes[a].addend < fdes[b].addend
       /\ \A a \in DOMAIN fdes : fdes[a].symbol = FUNCTION_SYMBOL
       /\ {fdes[a].addend : a \in DOMAIN fdes}
            = {i \in DOMAIN module.bodies : module.bodies[i].unwind = "Fde"}

\* The pool ended the functions in the order 2, 1, 0; function 1 has no
\* entry; the section lists the entries of functions 0 and 2.
C10_Witness ==
  /\ Succeeded("rayon")
  /\ hist["rayon"].func_order = <<2, 1, 0>>
  /\ module.bodies[1].unwind # "Fde"
  /\ ret["rayon"].val.debug.tag = "Some"
  /\ LET fdes == ret["rayon"].val.custom_sections[0].fdes
     IN Len(fdes) = 2 /\ fdes[1].addend = 0 /\ fdes[2].addend = 2

EhFrameIndexes(sections) == {j \in DOMAIN sections : sections[j].kind = "eh_frame"}
PointerMatchesSection(dwarf, sections) ==
  /\ dwarf.tag = "Some" <=> EhFrameIndexes(sections) # {}
  /\ dwarf.tag = "Some" => EhFrameIndexes(sections) = {dwarf.val.section_index}

\* C11: the Dwarf pointer of a Compilation is set exactly when custom_sections
\* holds an eh_frame section; there is then one such section, and the
\* pointer's section index is its key in custom_sections.  The same holds of
\* compile_module's locals once the unwind step is over.
C11_DwarfPointsAtSection ==
  /\ \A m \in Modes :
       Succeeded(m) => PointerMatchesSection(ret[m].val.debug, ret[m].val.custom_sections)
  /\ pc \in {"call_trampolines", "dynamic_trampolines"}
       => PointerMatchesSection(loc.dwarf, loc.custom_sections)

\* The sequential build of two functions returned a Compilation whose Dwarf
\* pointer names section 0, the eh_frame section.
C11_Witness ==
  /\ Succeeded("seq")
  /\ NumFuncs = 2
  /\ ret["seq"].val.debug = Some([section_index |-> 0])
  /\ ret["seq"].val.custom_sections[0].kind = "eh_frame"

HasDwarfShape(func) ==
  func.body.unwind_info.tag = "Some" /\ func.body.unwind_info.val.shape = "Dwarf"

\* C12: on a target whose default calling convention is not SystemV there is
\* no frame table, no task hands back a frame descriptor entry, no eh_frame
\* section is appended, the Dwarf pointer stays None and no compiled function
\* has the Dwarf unwind shape, whether or not the ISA has a common frame
\* descriptor.
C12_NonSystemVSkipsUnwind ==
  target.cc # "SystemV" =>
    /\ loc.dwarf_frametable.tag = "None"
    /\ loc.dwarf.tag = "None"
    /\ ~HasEhFrame(loc.custom_sections)
    /\ \A i \in DOMAIN loc.fdes : loc.fdes[i] = None
    /\ \A i \in DOMAIN loc.functions : ~HasDwarfShape(loc.functions[i])
    /\ pc = "functions" =>
         \A i \in DOMAIN fan.out :
           fan.out[i].tag = "Some" =>
             fan.out[i].val.fde = None /\ ~HasDwarfShape(fan.out[i].val.func)
    /\ \A m \in Modes :
         Succeeded(m) =>
           /\ ret[m].val.debug.tag = "None"
           /\ ~HasEhFrame(ret[m].val.custom_sections)
           /\ \A i \in DOMAIN ret[m].val.functions : ~HasDwarfShape(ret[m].val.functions[i])

\* Two functions for which the code generator returned the Fde shape were
\* compiled by the pool for a Windows target whose ISA has a common frame
\* descriptor: they carry no unwind information.
C12_Witness ==
  /\ Succeeded("rayon")
  /\ target = [cc |-> "WindowsFastcall", cie |-> TRUE]
  /\ NumFuncs = 2
  /\ module.bodies[0].unwind = "Fde"
  /\ ret["rayon"].val.functions[0].body.unwind_info = None
  /\ ret["rayon"].val.custom_sections = EmptyVec

Running == {w \in Workers : worker[w].tag = "Some"}
Started(f) == {i \in DOMAIN f.state : f.state[i] # "pending"}

FailingSigs == {j \in DOMAIN module.signatures : ~module.signatures[j].tramp_ok}
FailingImports == {k \in DOMAIN module.imports : ~module.imports[k].tramp_ok}
TrampolineError(func_type) == [type |-> "Codegen", func |-> func_type.ty]

\* C16: when every local function compiles and the trampoline of a signature
\* or of an imported function cannot be generated, the call returns the error
\* of such a trampoline and no Compilation (the sequential build the error of
\* the first one in table order, signatures before imports), although by then
\* every function has been compiled and the unwind step has run.
C16_TrampolineFailureFatal ==
  /\ \A m \in Modes :
       (Returned(m) /\ FailingFuncs = {}) =>
         /\ FailingSigs # {} =>
              /\ ret[m].tag = "Err"
              /\ ret[m].err \in {TrampolineError(module.signatures[j]) : j \in FailingSigs}
         /\ (FailingSigs = {} /\ FailingImports # {}) =>
              /\ ret[m].tag = "Err"
              /\ ret[m].err \in {TrampolineError(module.imports[k]) : k \in FailingImports}
  /\ (Returned("seq") /\ FailingFuncs = {} /\ FailingSigs # {}) =>
       ret["seq"] = Err(TrampolineError(module.signatures[MinOf(FailingSigs)]))
  /\ (pc \in {"call_trampolines", "dynamic_trampolines"} /\ fan.saved_error.tag = "Some") =>
       /\ IsDense(loc.functions, NumFuncs)
       /\ loc.dwarf.tag = "Some" <=> ExpectFrameTable
       /\ loc.dwarf.tag = "Some" => HasEhFrame(loc.custom_sections)

\* One function was compiled for a SystemV target and both signatures got
\* their trampolines; the trampoline of the second imported function failed
\* and both builds returned its error.
C16_Witness ==
  /\ NumFuncs = 1 /\ NumSigs = 2 /\ NumImports = 2
  /\ target = SysV
  /\ FailingFuncs = {} /\ FailingSigs = {} /\ FailingImports = {1}
  /\ Returned("rayon")
  /\ ret["seq"] = Err(TrampolineError(module.imports[1]))
  /\ ret["rayon"] = Err(TrampolineError(module.imports[1]))

\* The frame descriptor entries of a Compilation: those of its eh_frame
\* section, none without one.
AttachedFdes(c) ==
  IF c.debug.tag = "Some" THEN c.custom_sections[c.debug.val.section_index].fdes ELSE << >>
DwarfFuncs(c) == {i \in DOMAIN c.functions : HasDwarfShape(c.functions[i])}

\* C17: in a returned Compilation a function has unwind_info = Dwarf exactly
\* when the frame table holds an entry for it, which is exactly when the frame
\* table exists and the code generator returned the Fde shape for it; the
\* entry has the function symbol and the function's local index as addend;
\* the table has as many entries as there are Dwarf functions; and a function
\* with the Fde shape has no unwind_info when there is no frame table.
C17_DwarfIffFde ==
  \A m \in Modes :
    Succeeded(m) =>
      LET c == ret[m].val
          fdes == AttachedFdes(c)
      IN /\ \A i \in DOMAIN c.functions :
              /\ HasDwarfShape(c.functions[i])
                   <=> \E a \in DOMAIN fdes :
                         fdes[a].symbol = FUNCTION_SYMBOL /\ fdes[a].addend = i
              /\ HasDwarfShape(c.functions[i])
                   <=> (ExpectFrameTable /\ module.bodies[i].unwind = "Fde")
              /\ (~ExpectFrameTable /\ module.bodies[i].unwind = "Fde")
                   => c.functions[i].body.unwind_info = None
         /\ \A a \in DOMAIN fdes :
              fdes[a].symbol = FUNCTION_SYMBOL /\ fdes[a].addend \in DwarfFuncs(c)
         /\ Len(fdes) = Cardinality(DwarfFuncs(c))

\* The sequential build compiled three functions for a SystemV target: the
\* first two have the Fde shape and an entry each, the third has the Windows
\* shape and none.
C17_Witness ==
  /\ Succeeded("seq")
  /\ NumFuncs = 3
  /\ DwarfFuncs(ret["seq"].val) = {0, 1}
  /\ Len(AttachedFdes(ret["seq"].val)) = 2
  /\ ret["seq"].val.functions[2].body.unwind_info.tag = "Some"

NormalizedReloc == norm.kind = "reloc" /\ norm.out.tag = "Some"
NameOfLocal(j) == get_function_name(func_index(module, j))

\* C18: local function j is compiled under the name of function index K + j,
\* K the number of imported functions, and local_func_index takes that index
\* back to j; a relocation that names local function j is normalized to
\* LocalFunc(j), by the normalizer alone and in every compiled function.
C18_NamingInverse ==
  /\ \A j \in DOMAIN module.bodies :
       /\ NameOfLocal(j) = UserName(NumImports + j)
       /\ local_func_index(module, NameOfLocal(j).index) = Some(j)
       /\ (NormalizedReloc /\ norm.input.name = NameOfLocal(j)) =>
            /\ IsOk(norm.out.val)
            /\ norm.out.val.val.reloc_target = LocalFunc(j)
  /\ \A m \in Modes :
       Succeeded(m) =>
         \A i, j \in DOMAIN module.bodies :
           \A r \in DOMAIN module.bodies[i].relocs :
             module.bodies[i].relocs[r].name = NameOfLocal(j)
               => ret[m].val.functions[i].relocations[r].reloc_target = LocalFunc(j)

\* With two imported functions, a relocation naming function index 3 was
\* normalized to LocalFunc(1).
C18_Witness ==
  /\ NormalizedReloc
  /\ NumImports = 2
  /\ norm.input.name = UserName(3)
  /\ NameOfLocal(1) = UserName(3)
  /\ IsOk(norm.out.val)
  /\ norm.out.val.val.reloc_target = LocalFunc(1)

NamesUnrecognized(body) ==
  \E r \in DOMAIN body.relocs : body.relocs[r].name.tag \notin {"User", "LibCall"}

\* C19: a relocation that names a runtime intrinsic is normalized to the
\* LibCall target of that intrinsic; every normalized relocation has the
\* offset and the addend of the backend's; a name that is neither a function
\* name nor an intrinsic makes the normalizer panic, and a module with such a
\* relocation yields no Compilation; the relocation list of every compiled
\* function has the length and the order of the backend's list.
C19_RelocNormalization ==
  /\ NormalizedReloc =>
       /\ norm.input.name.tag = "LibCall" =>
            /\ IsOk(norm.out.val)
            /\ norm.out.val.val.reloc_target
                 = LibCall(irlibcall_to_libcall(norm.input.name.libcall))
       /\ IsOk(norm.out.val) =>
            /\ norm.out.val.val.offset = norm.input.offset
            /\ norm.out.val.val.addend = norm.input.addend
       /\ norm.input.name.tag \notin {"User", "LibCall"} => norm.out.val = Panic
  /\ \A m \in Modes :
       /\ Succeeded(m) =>
            \A i \in DOMAIN module.bodies :
              LET rs == ret[m].val.functions[i].relocations
                  bs == module.bodies[i].relocs
              IN /\ Len(rs) = Len(bs)
                 /\ \A r \in DOMAIN bs :
                      /\ rs[r].offset = bs[r].offset
                      /\ rs[r].addend = bs[r].addend
                      /\ bs[r].name.tag = "LibCall"
                           <=> rs[r].reloc_target.tag = "LibCall"
                      /\ bs[r].name.tag = "LibCall"
                           => rs[r].reloc_target
                                = LibCall(irlibcall_to_libcall(bs[r].name.libcall))
       /\ Returned(m) =>
            \A i \in DOMAIN module.bodies :
              NamesUnrecognized(module.bodies[i]) =>
                /\ ret[m].tag # "Ok"
                /\ FailingFuncs = {i} => ret[m] = Panic

\* The pool compiled a function whose backend list is a call of a local
\* function followed by a Probestack relocation at offset 1 with addend -4.
C19_Witness ==
  /\ Succeeded("rayon")
  /\ \E i \in DOMAIN module.bodies :
       /\ Len(module.bodies[i].relocs) = 2
       /\ module.bodies[i].relocs[2] = LibReloc
       /\ LET rs == ret["rayon"].val.functions[i].relocations
          IN /\ rs[1].reloc_target.tag = "LocalFunc"
             /\ rs[2].reloc_target = LibCall("Probestack")
             /\ rs[2].offset = 1 /\ rs[2].addend = -4

AfterFunctions == {"unwind", "call_trampolines", "dynamic_trampolines"}

\* C20: compile_module is past the function fan-out only when every local
\* function has been compiled, and in the dynamic trampoline pass only when
\* every signature has its trampoline; the tasks in flight are tasks of the
\* pass compile_module stands in; so a module with a failing function never
\* reaches a trampoline pass, and the call returns the outcome of a failing
\* function even when a trampoline would fail too.
C20_StagesInSequence ==
  /\ pc \in AfterFunctions =>
       /\ FailingFuncs = {}
       /\ IsDense(loc.functions, NumFuncs)
  /\ pc \in {"functions", "unwind", "call_trampolines"} =>
       loc.function_call_trampolines = EmptyVec
  /\ pc = "dynamic_trampolines" =>
       /\ FailingSigs = {}
       /\ IsDense(loc.function_call_trampolines, NumSigs)
  /\ pc \in Stages =>
       /\ fan.n = VLen(FanOutItems(module, pc))
       /\ \A w \in Running : fan.state[worker[w].val] = "running"
  /\ pc \notin Stages => ~Busy
  /\ \A m \in Modes :
       (Returned(m) /\ FailingFuncs # {}) =>
         ret[m] \in {CompileFunction(module, ExpectFrameTable, i) : i \in FailingFuncs}

\* The only function is malformed and the trampoline of the only signature
\* and of the only import would fail: both builds returned the
\* function's error.
C20_Witness ==
  /\ NumFuncs = 1 /\ Malformed = {0}
  /\ FailingSigs = {0} /\ FailingImports = {0}
  /\ Returned("rayon")
  /\ ret["seq"] = Err([type |-> "Translation", func |-> 0])
  /\ ret["rayon"] = Err([type |-> "Translation", func |-> 0])

InCall == pc \in Stages \cup {"unwind"}

\* What a call has returned is one outcome: a Compilation with every function
\* and every trampoline and no Err of any task, or the first Err of a task and
\* nothing else, or the panic of a task resumed.
OneOutcome(m) ==
  /\ ret[m].tag \in {"Ok", "Err", "Panic"}
  /\ ret[m].tag = "Ok" =>
       /\ DOMAIN ret[m] = {"tag", "val"}
       /\ hist[m].first_error = None
       /\ IsDense(ret[m].val.functions, NumFuncs)
       /\ IsDense(ret[m].val.function_call_trampolines, NumSigs)
       /\ IsDense(ret[m].val.dynamic_function_trampolines, NumImports)
  /\ ret[m].tag = "Err" =>
       /\ DOMAIN ret[m] = {"tag", "err"}
       /\ hist[m].first_error = Some(ret[m].err)
  /\ ret[m].tag = "Panic" => DOMAIN ret[m] = {"tag"}

\* C21: with the calling thread and the pool threads scheduled fairly, every
\* call of compile_module returns; when it has returned no task is running
\* and no fan-out is left open, and what it returned is exactly one outcome:
\* a complete Compilation, or an error (an Err, or a task's panic resumed),
\* never both.
C21_TerminatesWithOneOutcome ==
  /\ InCall ~> (pc = "idle" /\ ret[mode].tag # "None")
  /\ [](pc = "idle" =>
          /\ ~Busy
          /\ fan = NewFan(0)
          /\ loc = NoLocals
          /\ \A m \in Modes : ret[m].tag # "None" => OneOutcome(m))
  /\ [](InCall => ret[mode].tag = "None")

\* Both builds of a module of three functions have returned: the sequential
\* one an error, the pool the same error with two functions it never took.
C21_Witness ==
  /\ pc = "idle" /\ ~Busy
  /\ NumFuncs = 3
  /\ ret["seq"].tag = "Err"
  /\ ret["rayon"] = ret["seq"]
  /\ Len(hist["rayon"].func_order) = 1
  /\ OneOutcome("rayon")

====
